---- MODULE Spec2Model ----
(***************************************************************************)
(* Traplace URL shortener: the two request handlers of                     *)
(* app/routes/shortener.py (api_shorten, redirect_short), the helpers of   *)
(* app/utils/shortener.py they call, and the Redis keys they read and      *)
(* write.  Every Redis command is one atomic step of the handler that      *)
(* issues it; handlers of different requests interleave between commands,  *)
(* and Redis expires keys as time passes (Tick).                           *)
(***************************************************************************)
EXTENDS Integers, Sequences, FiniteSets, TLC

\* ------------------------------------------------------------------ bounds

\* SHORT_TTL_SECONDS counted in ticks of the model's clock.
MaxTtl == 2

\* Variant of the loop bound: range(9).
NineAttempts == 8 + 1

\* range(8): attempts of the allocation loop.
MaxAttempts == 8

\* Concurrent request handlers (workers sharing the one Redis).
Procs == {"w1", "w2"}

\* Codes new_code() can return (the random draw, abstracted to a small set).
Codes == {"c1", "c2"}

\* A code no draw returns (GET /s/doesnotexist).
NoSuchCode == "doesnotexist"

\* ------------------------------------------------------------------ strings
\* A Python str is a sequence of one-character strings.

Whitespace == {" "}

SchemeChars == {"s", "t", "h", "e", "a", "b", "q", "f"}

\* The characters of the model's strings.
Chars == SchemeChars \cup Whitespace \cup {":", "/", "?", "#"}

\* str.lstrip()
lstrip[s \in Seq(Chars)] ==
    IF s # <<>> /\ Head(s) \in Whitespace THEN lstrip[Tail(s)] ELSE s

\* str.rstrip()
rstrip[s \in Seq(Chars)] ==
    IF s # <<>> /\ s[Len(s)] \in Whitespace
    THEN rstrip[SubSeq(s, 1, Len(s) - 1)]
    ELSE s

\* str.strip()
strip(s) == rstrip[lstrip[s]]

\* str.startswith("/")
startswith_slash(s) == s # <<>> /\ Head(s) = "/"

\* str.find(ch): the first index of ch in s (1-based), 0 when absent.
find[s \in Seq(Chars), ch \in Chars] ==
    IF \E i \in 1..Len(s) : s[i] = ch
    THEN CHOOSE i \in 1..Len(s) : s[i] = ch /\ \A j \in 1..(i - 1) : s[j] # ch
    ELSE 0

\* urlsplit, the scheme: the characters before the first ':' when there are
\* some and all are scheme characters.  [scheme, rest]
split_scheme[url \in Seq(Chars)] ==
    LET i == find[url, ":"]
    IN  IF i > 1 /\ \A j \in 1..(i - 1) : url[j] \in SchemeChars
        THEN [part |-> SubSeq(url, 1, i - 1), rest |-> SubSeq(url, i + 1, Len(url))]
        ELSE [part |-> <<>>, rest |-> url]

\* urlsplit, the netloc: after a leading '//', up to the next '/', '?' or '#'.
split_netloc[url \in Seq(Chars)] ==
    IF Len(url) >= 2 /\ url[1] = "/" /\ url[2] = "/"
    THEN LET stops == {i \in 3..Len(url) : url[i] \in {"/", "?", "#"}}
             k == IF stops = {} THEN Len(url) + 1
                  ELSE CHOOSE i \in stops : \A j \in stops : i <= j
         IN  [part |-> SubSeq(url, 3, k - 1), rest |-> SubSeq(url, k, Len(url))]
    ELSE [part |-> <<>>, rest |-> url]

\* str.split(ch, 1) from the right part's point of view: what follows the
\* first ch (part) and what precedes it (rest).
split_after[url \in Seq(Chars), ch \in Chars] ==
    LET i == find[url, ch]
    IN  IF i > 0
        THEN [part |-> SubSeq(url, i + 1, Len(url)), rest |-> SubSeq(url, 1, i - 1)]
        ELSE [part |-> <<>>, rest |-> url]

\* urllib.parse.urlparse on the characters the model uses (no ';' params):
\* scheme, netloc, then the fragment after the first '#', the query after the
\* first '?', and the path that is left.
urlparse[url \in Seq(Chars)] ==
    LET s1 == split_scheme[url]
        s2 == split_netloc[s1.rest]
        s3 == split_after[s2.rest, "#"]
        s4 == split_after[s3.rest, "?"]
    IN  [scheme |-> s1.part, netloc |-> s2.part, path |-> s4.rest,
         query |-> s4.part, fragment |-> s3.part]

\* origin_of(req): f"{req.scheme}://{req.host}"
origin_of(req) == req.scheme \o <<":", "/", "/">> \o req.host

\* extract_path_preserving_query(target)
extract_path_preserving_query(target) ==
    IF startswith_slash(target)
    THEN target
    ELSE LET parsed == urlparse[target]
             path == IF parsed.path # <<>> THEN parsed.path ELSE <<"/">>
         IN  IF parsed.query # <<>>
             THEN path \o <<"?">> \o parsed.query
             ELSE path

\* Variant of same_origin: compares the hosts only, not the schemes.
same_host(req, target_url) ==
    IF startswith_slash(target_url)
    THEN TRUE
    ELSE LET p == urlparse[target_url]
         IN  IF p.scheme = <<>> \/ p.netloc = <<>>
             THEN FALSE
             ELSE p.netloc = req.host

\* Variant of same_origin: no shortcut for a root-relative target.
same_origin_parsed_only(req, target_url) ==
    LET p == urlparse[target_url]
    IN  IF p.scheme = <<>> \/ p.netloc = <<>>
        THEN FALSE
        ELSE p.scheme \o <<":", "/", "/">> \o p.netloc = origin_of(req)

\* same_origin(req, target_url)
same_origin(req, target_url) ==
    IF startswith_slash(target_url)
    THEN TRUE
    ELSE LET p == urlparse[target_url]
         IN  IF p.scheme = <<>> \/ p.netloc = <<>>
             THEN FALSE
             ELSE p.scheme \o <<":", "/", "/">> \o p.netloc = origin_of(req)

\* ------------------------------------------------------------------ codes
\* new_code and to_base62 of app/utils/shortener.py.  The 48-bit draw is kept
\* exact: a number is its NumLimbs digits in base 2^LimbBits, most
\* significant first.

\* secrets.randbits(48)
RandBits == 48

\* SHORT_CODE_LEN
SHORT_CODE_LEN == 8

\* Lengths new_code is asked for: 1..MaxCodeLen.
MaxCodeLen == 10

LimbBits == 12

LimbBase == 2^LimbBits

NumLimbs == RandBits \div LimbBits

\* _BASE62
BASE62 ==
    << "0", "1", "2", "3", "4", "5", "6", "7", "8", "9", "A", "B", "C",
       "D", "E", "F", "G", "H", "I", "J", "K", "L", "M", "N", "O", "P",
       "Q", "R", "S", "T", "U", "V", "W", "X", "Y", "Z", "a", "b", "c",
       "d", "e", "f", "g", "h", "i", "j", "k", "l", "m", "n", "o", "p",
       "q", "r", "s", "t", "u", "v", "w", "x", "y", "z" >>

Radix == Len(BASE62)

Alphabet == {BASE62[i] : i \in 1..Radix}

ZeroLimbs == [i \in 1..NumLimbs |-> 0]

\* divmod(n, 62): long division, most significant limb first.
\* acc = [quot: the limbs of the quotient so far, rem: the running remainder]
divmod_step[n \in Seq(0..(LimbBase - 1)), i \in 0..NumLimbs] ==
    IF i = 0
    THEN [quot |-> <<>>, rem |-> 0]
    ELSE LET acc == divmod_step[n, i - 1]
             cur == acc.rem * LimbBase + n[i]
         IN  [quot |-> Append(acc.quot, cur \div Radix), rem |-> cur % Radix]

divmod62(n) == divmod_step[n, NumLimbs]

\* The while loop of to_base62: s collects the digits, least significant
\* first.
base62_loop[n \in Seq(0..(LimbBase - 1)), s \in Seq(Alphabet)] ==
    IF n = ZeroLimbs
    THEN s
    ELSE LET d == divmod62(n)
         IN  base62_loop[d.quot, Append(s, BASE62[d.rem + 1])]

\* reversed(s)
reversed(s) == [i \in 1..Len(s) |-> s[Len(s) + 1 - i]]

\* to_base62(n)
to_base62(n) ==
    IF n = ZeroLimbs THEN <<BASE62[1]>> ELSE reversed(base62_loop[n, <<>>])

\* Variant of new_code: keeps the last code_len characters, not the first.
new_code_tail(code_len, n) ==
    LET code == to_base62(n)
    IN  IF Len(code) < code_len
        THEN [i \in 1..(code_len - Len(code)) |-> BASE62[1]] \o code
        ELSE SubSeq(code, Len(code) - code_len + 1, Len(code))

\* new_code(code_len), n being the value secrets.randbits(48) returned.
new_code(code_len, n) ==
    LET code == to_base62(n)
    IN  IF Len(code) < code_len
        THEN [i \in 1..(code_len - Len(code)) |-> BASE62[1]] \o code
        ELSE SubSeq(code, 1, code_len)

\* The draws tried: every limb one of these.
DrawLimb == {0, 1, Radix, LimbBase - 1}

Draws == [1..NumLimbs -> DrawLimb]

NoMint == <<>>

\* ------------------------------------------------------------------ inputs

Str_rel == <<"/", "a">>

Str_abs == <<"s", ":", "/", "/", "h", "/", "b", "?", "q", "#", "f">>

Str_noscheme == <<"h", "/", "a">>

Str_blank == <<" ">>

Origin_sh == [scheme |-> <<"s">>, host |-> <<"h">>]

Origin_se == [scheme |-> <<"s">>, host |-> <<"e">>]

Origin_th == [scheme |-> <<"t">>, host |-> <<"h">>]

\* POST /api/shorten bodies with the origin of the request that carries them.
ShortenRequests ==
    { [url |-> Str_rel, origin |-> Origin_sh],
      [url |-> Str_rel, origin |-> Origin_se],
      [url |-> Str_abs, origin |-> Origin_sh],
      [url |-> Str_abs, origin |-> Origin_se],
      [url |-> Str_abs, origin |-> Origin_th],
      [url |-> Str_noscheme, origin |-> Origin_sh],
      [url |-> Str_blank, origin |-> Origin_sh],
      [url |-> <<>>, origin |-> Origin_sh] }

NoRequest == [url |-> <<>>, origin |-> [scheme |-> <<>>, host |-> <<>>]]

\* GET /s/<code>
ResolveCodes == Codes \cup {NoSuchCode}

\* The normalized paths the accepted requests store.
Paths ==
    { extract_path_preserving_query(strip(q.url)) :
        q \in { x \in ShortenRequests :
                  strip(x.url) # <<>> /\ same_origin(x.origin, strip(x.url)) } }

\* ------------------------------------------------------------------ Redis

NoCode == ""

NoPath == <<>>

\* A key that does not exist (never set, or expired).  The ttl of a key is
\* what TTL reports: the time left, or NoExpiry for a key set without one.
NoExpiry == 0 - 1

AbsentFwd == [val |-> NoPath, ttl |-> 0]

AbsentRev == [val |-> NoCode, ttl |-> 0]

\* EXISTS key
redis_exists(m, k) == m[k].ttl # 0

\* GET key: the value, or None (the absent value) when the key is not there.
redis_get(m, k) == m[k].val

\* Variant of EXPIRE: the call is dropped.
redis_expire_dropped(m, k, ttl) == m

\* EXPIRE key ttl: a no-op on a missing key.
redis_expire(m, k, ttl) ==
    IF redis_exists(m, k) THEN [m EXCEPT ![k].ttl = ttl] ELSE m

\* Variant of SET: the ex argument is lost, the key never expires.
redis_set_persistent(m, k, v, ttl) == [m EXCEPT ![k] = [val |-> v, ttl |-> NoExpiry]]

\* SET key val EX ttl
redis_set(m, k, v, ttl) == [m EXCEPT ![k] = [val |-> v, ttl |-> ttl]]

\* SET key val EX ttl NX: the reply (True when the key was set).
redis_set_nx_ok(m, k) == ~redis_exists(m, k)

\* Variant of SET NX: the nx flag is lost, the key is overwritten.
redis_set_overwrite(m, k, v, ttl) == redis_set(m, k, v, ttl)

\* SET key val EX ttl NX: the keyspace afterwards.
redis_set_nx(m, k, v, ttl) ==
    IF redis_exists(m, k) THEN m ELSE redis_set(m, k, v, ttl)

\* One tick of Redis' clock on one key: a key whose time is up is gone, a
\* key without expiry stays.
age(e, absent) ==
    IF e.ttl = NoExpiry THEN e
    ELSE IF e.ttl <= 1 THEN absent
    ELSE [e EXCEPT !.ttl = e.ttl - 1]

\* ------------------------------------------------------------------ state

VARIABLES
    fwd,            \* su:<code>      -> [val: path, ttl]
    rev,            \* su:path:<path> -> [val: code, ttl]
    up,             \* the Redis server answers
    client,         \* app.extensions['redis'] holds a client
    pc,             \* where each handler is
    req,            \* api_shorten: the request (url, origin)
    r,              \* the handler's r = get_redis() (TRUE: a client, FALSE: None)
    path,           \* the handler's local path
    existing_code,  \* api_shorten: existing_code
    code,           \* api_shorten: code; redirect_short: the <code> argument
    tries,          \* api_shorten: iterations of the loop completed
    resp,           \* the response the handler returned
    log,            \* keys the current request has set, in order
    elapsed,        \* history: the clock ticked while the request was running
    first,          \* history: per path, the code the latest successful
                    \*   shorten request returned and the ticks since then
    expect,         \* history: what `first` held when the request began
    draw            \* new_code: the random draw, the length asked for, the
                    \*   code returned

\* The handlers, the keys, and what is observed of them.
served ==
    <<fwd, rev, up, client, pc, req, r, path, existing_code, code, tries,
      resp, log, elapsed, first, expect>>

vars == <<served, draw>>

store == <<fwd, rev>>

NoFirst == [code |-> NoCode, age |-> 0, atomic |-> FALSE]

NoResp == [status |-> 0, code |-> NoCode, path |-> NoPath, error |-> ""]

Response(status, c, p, e) ==
    [status |-> status, code |-> c, path |-> p, error |-> e]

NoDraw == [n |-> ZeroLimbs, code_len |-> SHORT_CODE_LEN, code |-> NoMint]

Init ==
    /\ draw = NoDraw
    /\ fwd = [c \in ResolveCodes |-> AbsentFwd]
    /\ rev = [p \in Paths |-> AbsentRev]
    /\ up = TRUE
    /\ client = TRUE
    /\ pc = [p \in Procs |-> "idle"]
    /\ req = [p \in Procs |-> NoRequest]
    /\ r = [p \in Procs |-> FALSE]
    /\ path = [p \in Procs |-> NoPath]
    /\ existing_code = [p \in Procs |-> NoCode]
    /\ code = [p \in Procs |-> NoCode]
    /\ tries = [p \in Procs |-> 0]
    /\ resp = [p \in Procs |-> NoResp]
    /\ log = [p \in Procs |-> <<>>]
    /\ elapsed = [p \in Procs |-> FALSE]
    /\ first = [x \in Paths |-> NoFirst]
    /\ expect = [p \in Procs |-> NoFirst]

\* ------------------------------------------------------------------ helpers

\* get_redis(): the registered client, else a lazy connect that needs the
\* server to answer the ping; None (FALSE) when that fails.
get_redis == client \/ up

\* A handler is between two Redis commands of api_shorten or redirect_short.
AtRedis(p) ==
    pc[p] \in {"rev_get", "exists", "expire_fwd", "expire_rev", "set_nx",
               "set_rev", "get", "expire"}

\* Variant of Answered: a store that does not answer is taken for an empty
\* one, the command returns as if the key had been looked up.
AnsweredAnyway(p) == TRUE

\* The Redis command of handler p is answered.
Answered(p) == r[p] /\ up

\* The handler returns: its locals die with the request.
Return(p, response) ==
    /\ pc' = [pc EXCEPT ![p] = "done"]
    /\ resp' = [resp EXCEPT ![p] = response]

\* ------------------------------------------------------------------ api_shorten

\* Lines 28-49: r = get_redis(), the body's url stripped, the two validations,
\* the normalized path.
ShortenBegin(p, q) ==
    /\ pc[p] = "idle"
    /\ req' = [req EXCEPT ![p] = q]
    /\ r' = [r EXCEPT ![p] = get_redis]
    /\ client' = get_redis
    /\ LET raw == strip(q.url)
       IN  IF raw = <<>>
           THEN /\ Return(p, Response(400, NoCode, NoPath, "url is required"))
                /\ path' = path
           ELSE IF ~same_origin(q.origin, raw)
           THEN /\ Return(p, Response(400, NoCode, NoPath,
                                      "only same-origin URLs are allowed"))
                /\ path' = path
           ELSE /\ path' = [path EXCEPT ![p] = extract_path_preserving_query(raw)]
                /\ pc' = [pc EXCEPT ![p] = "rev_get"]
                /\ resp' = resp
    /\ UNCHANGED <<fwd, rev, up, existing_code, code, tries, log>>

\* Variant of ShortenRevGet: the reverse key is read but never trusted, every
\* request allocates.
ShortenRevGetNoDedup(p) ==
    /\ pc[p] = "rev_get"
    /\ Answered(p)
    /\ pc' = [pc EXCEPT ![p] = "set_nx"]
    /\ UNCHANGED <<fwd, rev, up, client, req, r, path, existing_code, code,
                   tries, resp, log>>

\* Lines 52-55: existing_code = r.get(reverse_key); if existing_code: ...
ShortenRevGet(p) ==
    /\ pc[p] = "rev_get"
    /\ Answered(p)
    /\ LET got == redis_get(rev, path[p])
       IN  IF got # NoCode
           THEN /\ existing_code' = [existing_code EXCEPT ![p] = got]
                /\ pc' = [pc EXCEPT ![p] = "exists"]
           ELSE /\ existing_code' = existing_code
                /\ pc' = [pc EXCEPT ![p] = "set_nx"]
    /\ UNCHANGED <<fwd, rev, up, client, req, r, path, code, tries, resp, log>>

\* Variant of ShortenExists: the reply of EXISTS is not used, the request
\* allocates.
ShortenExistsUnused(p) ==
    /\ pc[p] = "exists"
    /\ Answered(p)
    /\ pc' = [pc EXCEPT ![p] = "set_nx"]
    /\ existing_code' = [existing_code EXCEPT ![p] = NoCode]
    /\ UNCHANGED <<fwd, rev, up, client, req, r, path, code, tries, resp, log>>

\* Lines 57-58: if r.exists(forward_key): ...
ShortenExists(p) ==
    /\ pc[p] = "exists"
    /\ Answered(p)
    /\ IF redis_exists(fwd, existing_code[p])
       THEN /\ pc' = [pc EXCEPT ![p] = "expire_fwd"]
            /\ existing_code' = existing_code
       ELSE /\ pc' = [pc EXCEPT ![p] = "set_nx"]
            /\ existing_code' = [existing_code EXCEPT ![p] = NoCode]
    /\ UNCHANGED <<fwd, rev, up, client, req, r, path, code, tries, resp, log>>

\* Variant of ShortenExpireFwd: the forward key is refreshed by setting it
\* again to the request's path.
ShortenSetFwdAgain(p) ==
    /\ pc[p] = "expire_fwd"
    /\ Answered(p)
    /\ fwd' = redis_set(fwd, existing_code[p], path[p], MaxTtl)
    /\ pc' = [pc EXCEPT ![p] = "expire_rev"]
    /\ UNCHANGED <<rev, up, client, req, r, path, existing_code, code, tries,
                   resp, log>>

\* Line 59: r.expire(forward_key, ttl)
ShortenExpireFwd(p) ==
    /\ pc[p] = "expire_fwd"
    /\ Answered(p)
    /\ fwd' = redis_expire(fwd, existing_code[p], MaxTtl)
    /\ pc' = [pc EXCEPT ![p] = "expire_rev"]
    /\ UNCHANGED <<rev, up, client, req, r, path, existing_code, code, tries,
                   resp, log>>

\* Lines 60-62: r.expire(reverse_key, ttl); return code=existing_code, 200
ShortenExpireRev(p) ==
    /\ pc[p] = "expire_rev"
    /\ Answered(p)
    /\ rev' = redis_expire(rev, path[p], MaxTtl)
    /\ Return(p, Response(200, existing_code[p], path[p], ""))
    /\ UNCHANGED <<fwd, up, client, req, r, path, existing_code, code, tries,
                   log>>

\* Variant of ShortenSetNx: the reply of SET NX is not tested, the request
\* goes on to the reverse key whatever it was.
ShortenSetNxIgnoreOk(p, c) ==
    /\ pc[p] = "set_nx"
    /\ Answered(p)
    /\ tries[p] < MaxAttempts
    /\ fwd' = redis_set_nx(fwd, c, path[p], MaxTtl)
    /\ code' = [code EXCEPT ![p] = c]
    /\ pc' = [pc EXCEPT ![p] = "set_rev"]
    /\ tries' = [tries EXCEPT ![p] = 0]
    /\ log' = IF redis_set_nx_ok(fwd, c)
              THEN [log EXCEPT ![p] =
                      Append(@, [key |-> "fwd", code |-> c, path |-> path[p]])]
              ELSE log
    /\ UNCHANGED <<rev, up, client, req, r, path, existing_code, resp>>

\* Lines 65-69 and 75: one iteration of for _ in range(8): code = new_code(),
\* ok = r.set(key, path, ex=ttl, nx=True); after the eighth failure, 503.
\* (tries and code are kept only while they can still be read: the counter
\* until the loop is left, the code of a failed attempt not at all.)
ShortenSetNx(p, c) ==
    /\ pc[p] = "set_nx"
    /\ Answered(p)
    /\ tries[p] < MaxAttempts
    /\ fwd' = redis_set_nx(fwd, c, path[p], MaxTtl)
    /\ IF redis_set_nx_ok(fwd, c)
       THEN /\ code' = [code EXCEPT ![p] = c]
            /\ pc' = [pc EXCEPT ![p] = "set_rev"]
            /\ tries' = [tries EXCEPT ![p] = 0]
            /\ log' = [log EXCEPT ![p] =
                         Append(@, [key |-> "fwd", code |-> c, path |-> path[p]])]
            /\ resp' = resp
       ELSE /\ code' = code
            /\ tries' = [tries EXCEPT ![p] = @ + 1]
            /\ log' = log
            /\ IF tries[p] + 1 = MaxAttempts
               THEN Return(p, Response(503, NoCode, NoPath,
                                       "could not allocate short code, try again"))
               ELSE UNCHANGED <<pc, resp>>
    /\ UNCHANGED <<rev, up, client, req, r, path, existing_code>>

\* Variant of ShortenSetRev: 201 is returned without the reverse key being
\* set.
ShortenSetRevSkipped(p) ==
    /\ pc[p] = "set_rev"
    /\ Answered(p)
    /\ Return(p, Response(201, code[p], path[p], ""))
    /\ UNCHANGED <<fwd, rev, up, client, req, r, path, existing_code, code,
                   tries, log>>

\* Lines 71-73: r.set(reverse_key, code, ex=ttl); return code=code, 201
ShortenSetRev(p) ==
    /\ pc[p] = "set_rev"
    /\ Answered(p)
    /\ rev' = redis_set(rev, path[p], code[p], MaxTtl)
    /\ log' = [log EXCEPT ![p] =
                 Append(@, [key |-> "rev", code |-> code[p], path |-> path[p]])]
    /\ Return(p, Response(201, code[p], path[p], ""))
    /\ UNCHANGED <<fwd, up, client, req, r, path, existing_code, code, tries>>

\* ------------------------------------------------------------------ redirect_short

\* Variant of ResolveGet: no abort(404), the handler goes on with whatever
\* GET returned.
ResolveGetNoAbort(p, c) ==
    /\ pc[p] = "idle"
    /\ get_redis /\ up
    /\ r' = [r EXCEPT ![p] = TRUE]
    /\ client' = TRUE
    /\ code' = [code EXCEPT ![p] = c]
    /\ path' = [path EXCEPT ![p] = redis_get(fwd, c)]
    /\ pc' = [pc EXCEPT ![p] = "expire"]
    /\ UNCHANGED <<fwd, rev, up, req, existing_code, tries, resp, log>>

\* Lines 81-89: r = get_redis(); path = r.get(key); if not path: abort(404)
ResolveGet(p, c) ==
    /\ pc[p] = "idle"
    /\ get_redis /\ up
    /\ r' = [r EXCEPT ![p] = TRUE]
    /\ client' = TRUE
    /\ code' = [code EXCEPT ![p] = c]
    /\ LET got == redis_get(fwd, c)
       IN  IF got = NoPath
           THEN /\ Return(p, Response(404, NoCode, NoPath, ""))
                /\ path' = path
           ELSE /\ path' = [path EXCEPT ![p] = got]
                /\ pc' = [pc EXCEPT ![p] = "expire"]
                /\ resp' = resp
    /\ UNCHANGED <<fwd, rev, up, req, existing_code, tries, log>>

\* Variant of ResolveExpire: the reverse key of the path is refreshed too.
ResolveExpireBoth(p) ==
    /\ pc[p] = "expire"
    /\ Answered(p)
    /\ fwd' = redis_expire(fwd, code[p], MaxTtl)
    /\ rev' = IF path[p] \in Paths THEN redis_expire(rev, path[p], MaxTtl) ELSE rev
    /\ Return(p, Response(302, NoCode, path[p], ""))
    /\ UNCHANGED <<up, client, req, r, path, existing_code, code, tries, log>>

\* Lines 92-93: r.expire(key, ttl); return redirect(path, code=302)
ResolveExpire(p) ==
    /\ pc[p] = "expire"
    /\ Answered(p)
    /\ fwd' = redis_expire(fwd, code[p], MaxTtl)
    /\ Return(p, Response(302, NoCode, path[p], ""))
    /\ UNCHANGED <<rev, up, client, req, r, path, existing_code, code, tries,
                   log>>

\* ------------------------------------------------------------------ environment

\* The response is sent; the worker takes the next request.
Finish(p) ==
    /\ pc[p] = "done"
    /\ pc' = [pc EXCEPT ![p] = "idle"]
    /\ req' = [req EXCEPT ![p] = NoRequest]
    /\ r' = [r EXCEPT ![p] = FALSE]
    /\ path' = [path EXCEPT ![p] = NoPath]
    /\ existing_code' = [existing_code EXCEPT ![p] = NoCode]
    /\ code' = [code EXCEPT ![p] = NoCode]
    /\ tries' = [tries EXCEPT ![p] = 0]
    /\ resp' = [resp EXCEPT ![p] = NoResp]
    /\ log' = [log EXCEPT ![p] = <<>>]
    /\ UNCHANGED <<fwd, rev, up, client>>

\* Time passes: every key is one tick nearer its expiry.
Tick ==
    /\ \E c \in ResolveCodes : redis_exists(fwd, c)
       \/ \E x \in Paths : redis_exists(rev, x)
    /\ fwd' = [c \in ResolveCodes |-> age(fwd[c], AbsentFwd)]
    /\ rev' = [x \in Paths |-> age(rev[x], AbsentRev)]
    /\ UNCHANGED <<up, client, pc, req, r, path, existing_code, code, tries,
                   resp, log>>

\* The worker takes no more requests.
Stop(p) ==
    /\ pc[p] = "idle"
    /\ pc' = [pc EXCEPT ![p] = "stopped"]
    /\ UNCHANGED <<fwd, rev, up, client, req, r, path, existing_code, code,
                   tries, resp, log>>

\* The request is abandoned between two Redis commands (the caller is gone,
\* the worker is killed): what it has written stays, nothing more is written.
Abandon(p) ==
    /\ AtRedis(p)
    /\ pc' = [pc EXCEPT ![p] = "stopped"]
    /\ req' = [req EXCEPT ![p] = NoRequest]
    /\ r' = [r EXCEPT ![p] = FALSE]
    /\ path' = [path EXCEPT ![p] = NoPath]
    /\ existing_code' = [existing_code EXCEPT ![p] = NoCode]
    /\ code' = [code EXCEPT ![p] = NoCode]
    /\ tries' = [tries EXCEPT ![p] = 0]
    /\ UNCHANGED <<fwd, rev, up, client, resp, log>>

\* ------------------------------------------------------------------ outage
\* The Redis server stops answering and answers again.  A command sent to a
\* server that does not answer raises redis.ConnectionError, a command on
\* r = None raises AttributeError; neither handler catches either, and Flask
\* answers 500 for the unhandled exception.

Outage ==
    /\ up
    /\ up' = FALSE
    /\ UNCHANGED <<fwd, rev, client, pc, req, r, path, existing_code, code,
                   tries, resp, log>>

Recover ==
    /\ ~up
    /\ up' = TRUE
    /\ UNCHANGED <<fwd, rev, client, pc, req, r, path, existing_code, code,
                   tries, resp, log>>

\* The application starts again between two requests: init_extensions
\* registers a client when the ping is answered, None otherwise.
Restart ==
    /\ \A p \in Procs : pc[p] = "idle"
    /\ client' = up
    /\ UNCHANGED <<fwd, rev, up, pc, req, r, path, existing_code, code, tries,
                   resp, log>>

\* The Redis command the handler is at raises.
Fail(p) ==
    /\ AtRedis(p)
    /\ ~Answered(p)
    /\ Return(p, Response(500, NoCode, NoPath, "Internal Server Error"))
    /\ UNCHANGED <<fwd, rev, up, client, req, r, path, existing_code, code,
                   tries, log>>

\* redirect_short, lines 81-87, when the server does not answer: get_redis()
\* returns the registered client or None (the lazy ping fails), r.get raises.
ResolveFail(p, c) ==
    /\ pc[p] = "idle"
    /\ ~up
    /\ r' = [r EXCEPT ![p] = get_redis]
    /\ client' = get_redis
    /\ code' = [code EXCEPT ![p] = c]
    /\ Return(p, Response(500, NoCode, NoPath, "Internal Server Error"))
    /\ UNCHANGED <<fwd, rev, up, req, path, existing_code, tries, log>>

\* ------------------------------------------------------------------ history
\* The history variables observe the handlers; no handler reads them.

\* Not observed.
NoHistory == UNCHANGED <<elapsed, first, expect>>

\* Observed step of handler p: a request that begins notes what the latest
\* successful shorten request for its path returned, if that was less than
\* the TTL ago; a shorten request that returns a code becomes the latest.
HistoryStep(p) ==
    /\ elapsed' = [elapsed EXCEPT ![p] = IF pc'[p] = "idle" THEN FALSE ELSE @]
    /\ expect' = [expect EXCEPT ![p] =
                    IF pc'[p] = "idle" THEN NoFirst
                    ELSE IF pc[p] = "idle" /\ pc'[p] = "rev_get"
                    THEN first[path'[p]]
                    ELSE @]
    /\ first' = IF pc[p] # "done" /\ pc'[p] = "done"
                   /\ resp'[p].status \in {200, 201}
                THEN [first EXCEPT ![resp'[p].path] =
                        [code |-> resp'[p].code, age |-> 0,
                         atomic |-> ~elapsed[p]]]
                ELSE first

\* Observed tick: the requests in flight have seen time pass; a return the
\* TTL ago is forgotten.
HistoryTick ==
    /\ elapsed' = [p \in Procs |-> elapsed[p] \/ AtRedis(p)]
    /\ first' = [x \in Paths |->
                   IF first[x].code = NoCode \/ first[x].age + 1 >= MaxTtl
                   THEN NoFirst
                   ELSE [first[x] EXCEPT !.age = @ + 1]]
    /\ expect' = expect

\* ------------------------------------------------------------------ new_code

\* The handlers do not look at the draw that is kept for new_code alone.
SameDraw == UNCHANGED draw

\* code = new_code(code_len) for the draw and the length chosen at the start.
NewCode ==
    /\ draw.code = NoMint
    /\ draw' = [draw EXCEPT !.code = new_code(draw.code_len, draw.n)]
    /\ UNCHANGED served

\* ------------------------------------------------------------------ specifications

\* One worker: requests one after another, keys expiring in between and
\* between the Redis commands of a request.
Worker == {"w1"}

Next ==
    \/ \E p \in Worker, q \in ShortenRequests : ShortenBegin(p, q) /\ NoHistory /\ SameDraw
    \/ \E p \in Worker : ShortenRevGet(p) /\ NoHistory /\ SameDraw
    \/ \E p \in Worker : ShortenExists(p) /\ NoHistory /\ SameDraw
    \/ \E p \in Worker : ShortenExpireFwd(p) /\ NoHistory /\ SameDraw
    \/ \E p \in Worker : ShortenExpireRev(p) /\ NoHistory /\ SameDraw
    \/ \E p \in Worker, c \in Codes : ShortenSetNx(p, c) /\ NoHistory /\ SameDraw
    \/ \E p \in Worker : ShortenSetRev(p) /\ NoHistory /\ SameDraw
    \/ \E p \in Worker, c \in ResolveCodes : ResolveGet(p, c) /\ NoHistory /\ SameDraw
    \/ \E p \in Worker : ResolveExpire(p) /\ NoHistory /\ SameDraw
    \/ \E p \in Worker : Finish(p) /\ NoHistory /\ SameDraw
    \/ Tick /\ NoHistory /\ SameDraw

Spec == Init /\ [][Next]_vars

\* The one worker, observed, asked again and again for the same path (from
\* either origin), and now and then for a target that is rejected.
HistRequests ==
    { [url |-> Str_rel, origin |-> Origin_sh],
      [url |-> Str_rel, origin |-> Origin_se],
      [url |-> Str_abs, origin |-> Origin_se] }

NextHist ==
    \/ \E p \in Worker, q \in HistRequests : ShortenBegin(p, q) /\ HistoryStep(p) /\ SameDraw
    \/ \E p \in Worker : ShortenRevGet(p) /\ HistoryStep(p) /\ SameDraw
    \/ \E p \in Worker : ShortenExists(p) /\ HistoryStep(p) /\ SameDraw
    \/ \E p \in Worker : ShortenExpireFwd(p) /\ HistoryStep(p) /\ SameDraw
    \/ \E p \in Worker : ShortenExpireRev(p) /\ HistoryStep(p) /\ SameDraw
    \/ \E p \in Worker, c \in Codes : ShortenSetNx(p, c) /\ HistoryStep(p) /\ SameDraw
    \/ \E p \in Worker : ShortenSetRev(p) /\ HistoryStep(p) /\ SameDraw
    \/ \E p \in Worker, c \in ResolveCodes : ResolveGet(p, c) /\ HistoryStep(p) /\ SameDraw
    \/ \E p \in Worker : ResolveExpire(p) /\ HistoryStep(p) /\ SameDraw
    \/ \E p \in Worker : Finish(p) /\ HistoryStep(p) /\ SameDraw
    \/ Tick /\ HistoryTick /\ SameDraw

SpecHist == Init /\ [][NextHist]_vars

\* Two workers on the one Redis: their commands interleave.
ConcRequests ==
    { [url |-> Str_rel, origin |-> Origin_se],
      [url |-> Str_abs, origin |-> Origin_sh] }

\* The two workers draw the same code: every allocation contends for it.
ConcCodes == {"c1"}

NextConc ==
    \/ \E p \in Procs, q \in ConcRequests : ShortenBegin(p, q) /\ NoHistory /\ SameDraw
    \/ \E p \in Procs : ShortenRevGet(p) /\ NoHistory /\ SameDraw
    \/ \E p \in Procs : ShortenExists(p) /\ NoHistory /\ SameDraw
    \/ \E p \in Procs : ShortenExpireFwd(p) /\ NoHistory /\ SameDraw
    \/ \E p \in Procs : ShortenExpireRev(p) /\ NoHistory /\ SameDraw
    \/ \E p \in Procs, c \in ConcCodes : ShortenSetNx(p, c) /\ NoHistory /\ SameDraw
    \/ \E p \in Procs : ShortenSetRev(p) /\ NoHistory /\ SameDraw
    \/ \E p \in Procs, c \in ConcCodes : ResolveGet(p, c) /\ NoHistory /\ SameDraw
    \/ \E p \in Procs : ResolveExpire(p) /\ NoHistory /\ SameDraw
    \/ \E p \in Procs : Finish(p) /\ NoHistory /\ SameDraw
    \/ Tick /\ NoHistory /\ SameDraw

SpecConc == Init /\ [][NextConc]_vars

\* Two workers asked for the same path, drawing either code.
PathRequests == { [url |-> Str_rel, origin |-> Origin_sh] }

NextPath ==
    \/ \E p \in Procs, q \in PathRequests : ShortenBegin(p, q) /\ NoHistory /\ SameDraw
    \/ \E p \in Procs : ShortenRevGet(p) /\ NoHistory /\ SameDraw
    \/ \E p \in Procs : ShortenExists(p) /\ NoHistory /\ SameDraw
    \/ \E p \in Procs : ShortenExpireFwd(p) /\ NoHistory /\ SameDraw
    \/ \E p \in Procs : ShortenExpireRev(p) /\ NoHistory /\ SameDraw
    \/ \E p \in Procs, c \in Codes : ShortenSetNx(p, c) /\ NoHistory /\ SameDraw
    \/ \E p \in Procs : ShortenSetRev(p) /\ NoHistory /\ SameDraw
    \/ \E p \in Procs, c \in Codes : ResolveGet(p, c) /\ NoHistory /\ SameDraw
    \/ \E p \in Procs : ResolveExpire(p) /\ NoHistory /\ SameDraw
    \/ \E p \in Procs : Finish(p) /\ NoHistory /\ SameDraw
    \/ Tick /\ NoHistory /\ SameDraw

SpecPath == Init /\ [][NextPath]_vars

\* One worker that in the end takes no more requests, or is stopped in the
\* middle of one; the clock of Redis does not stop.
NextDrain ==
    \/ \E p \in Worker, q \in PathRequests : ShortenBegin(p, q) /\ NoHistory /\ SameDraw
    \/ \E p \in Worker : ShortenRevGet(p) /\ NoHistory /\ SameDraw
    \/ \E p \in Worker : ShortenExists(p) /\ NoHistory /\ SameDraw
    \/ \E p \in Worker : ShortenExpireFwd(p) /\ NoHistory /\ SameDraw
    \/ \E p \in Worker : ShortenExpireRev(p) /\ NoHistory /\ SameDraw
    \/ \E p \in Worker, c \in Codes : ShortenSetNx(p, c) /\ NoHistory /\ SameDraw
    \/ \E p \in Worker : ShortenSetRev(p) /\ NoHistory /\ SameDraw
    \/ \E p \in Worker, c \in Codes : ResolveGet(p, c) /\ NoHistory /\ SameDraw
    \/ \E p \in Worker : ResolveExpire(p) /\ NoHistory /\ SameDraw
    \/ \E p \in Worker : Finish(p) /\ NoHistory /\ SameDraw
    \/ \E p \in Worker : Stop(p) /\ NoHistory /\ SameDraw
    \/ \E p \in Worker : Abandon(p) /\ NoHistory /\ SameDraw
    \/ Tick /\ NoHistory /\ SameDraw

SpecDrain ==
    Init /\ [][NextDrain]_vars /\ WF_vars(Tick /\ NoHistory /\ SameDraw)

\* One worker and a server that stops answering and answers again, at any
\* moment, with restarts of the application in between.
OutageRequests ==
    { [url |-> Str_rel, origin |-> Origin_se],
      [url |-> Str_abs, origin |-> Origin_se] }

NextOutage ==
    \/ \E p \in Worker, q \in OutageRequests : ShortenBegin(p, q) /\ NoHistory /\ SameDraw
    \/ \E p \in Worker : ShortenRevGet(p) /\ NoHistory /\ SameDraw
    \/ \E p \in Worker : ShortenExists(p) /\ NoHistory /\ SameDraw
    \/ \E p \in Worker : ShortenExpireFwd(p) /\ NoHistory /\ SameDraw
    \/ \E p \in Worker : ShortenExpireRev(p) /\ NoHistory /\ SameDraw
    \/ \E p \in Worker, c \in ConcCodes : ShortenSetNx(p, c) /\ NoHistory /\ SameDraw
    \/ \E p \in Worker : ShortenSetRev(p) /\ NoHistory /\ SameDraw
    \/ \E p \in Worker, c \in ResolveCodes : ResolveGet(p, c) /\ NoHistory /\ SameDraw
    \/ \E p \in Worker, c \in ResolveCodes : ResolveFail(p, c) /\ NoHistory /\ SameDraw
    \/ \E p \in Worker : ResolveExpire(p) /\ NoHistory /\ SameDraw
    \/ \E p \in Worker : Fail(p) /\ NoHistory /\ SameDraw
    \/ \E p \in Worker : Finish(p) /\ NoHistory /\ SameDraw
    \/ Tick /\ NoHistory /\ SameDraw
    \/ Outage /\ NoHistory /\ SameDraw
    \/ Recover /\ NoHistory /\ SameDraw
    \/ Restart /\ NoHistory /\ SameDraw

SpecOutage == Init /\ [][NextOutage]_vars

\* new_code alone, on every draw and length of the bounds.
InitCode ==
    /\ draw \in [n : Draws, code_len : 1..MaxCodeLen, code : {NoMint}]
    /\ fwd = [c \in ResolveCodes |-> AbsentFwd]
    /\ rev = [p \in Paths |-> AbsentRev]
    /\ up = TRUE
    /\ client = TRUE
    /\ pc = [p \in Procs |-> "idle"]
    /\ req = [p \in Procs |-> NoRequest]
    /\ r = [p \in Procs |-> FALSE]
    /\ path = [p \in Procs |-> NoPath]
    /\ existing_code = [p \in Procs |-> NoCode]
    /\ code = [p \in Procs |-> NoCode]
    /\ tries = [p \in Procs |-> 0]
    /\ resp = [p \in Procs |-> NoResp]
    /\ log = [p \in Procs |-> <<>>]
    /\ elapsed = [p \in Procs |-> FALSE]
    /\ first = [x \in Paths |-> NoFirst]
    /\ expect = [p \in Procs |-> NoFirst]

NextCode == NewCode

SpecCode == InitCode /\ [][NextCode]_vars

\* ------------------------------------------------------------------ properties

\* Handler p returns in this step.
Returns(p) == pc[p] # "done" /\ pc'[p] = "done"

\* Handler p of api_shorten returns in this step.
ShortenReturns(p) ==
    pc[p] \in {"idle", "expire_rev", "set_nx", "set_rev"} /\ pc'[p] = "done"
    /\ req'[p] # NoRequest

\* Handler p takes a step of redirect_short.
ResolveStep(p) ==
    \/ pc[p] = "idle" /\ pc'[p] # "idle" /\ req'[p] = NoRequest
    \/ pc[p] = "expire" /\ pc'[p] # "expire"

\* normalize(x) of the request's target.
Normalized(q) == extract_path_preserving_query(strip(q.url))

\* C1: round trip.  When a shorten request for target x returns a code
\* (201 created or 200 reused), resolving that code right away, before its
\* forward mapping expires, redirects to normalize(x).
C1_RoundTrip ==
    [][\A p \in Procs :
         (ShortenReturns(p) /\ resp'[p].status \in {200, 201}
            /\ redis_exists(fwd', resp'[p].code))
         => redis_get(fwd', resp'[p].code) = Normalized(req'[p])]_vars

\* C2: idempotence.  A shorten request that begins less than the TTL after
\* the latest earlier shorten request for the same normalized path returned
\* code c, and is served before the clock ticks again, returns c with status
\* 200, sets no key, and leaves the path's reverse entry present and holding c.
C2_Idempotent ==
    [][\A p \in Procs :
         (ShortenReturns(p) /\ expect[p].code # NoCode /\ ~elapsed[p])
         => /\ resp'[p].status = 200
            /\ resp'[p].code = expect[p].code
            /\ log'[p] = <<>>
            /\ redis_get(rev', path[p]) = expect[p].code]_vars

\* C2, amended: the same, when the earlier request too was served without
\* the clock ticking between its Redis commands (so that the forward and the
\* reverse entry it left carry the same remaining TTL).
C2_IdempotentNoSkew ==
    [][\A p \in Procs :
         (ShortenReturns(p) /\ expect[p].code # NoCode
            /\ expect[p].atomic /\ ~elapsed[p])
         => /\ resp'[p].status = 200
            /\ resp'[p].code = expect[p].code
            /\ log'[p] = <<>>
            /\ redis_get(rev', path[p]) = expect[p].code]_vars

\* C2 witness: a request made one tick before the TTL of the first was up
\* has reused the first's code.
C2_Witness ==
    \E p \in Procs :
        /\ pc[p] = "done" /\ resp[p].status = 200
        /\ expect[p].code = resp[p].code
        /\ expect[p].atomic /\ ~elapsed[p]
        /\ expect[p].age = MaxTtl - 1

\* C3: a live forward mapping is never overwritten.  No step changes the
\* value of a forward mapping that is live before and after it, and a
\* set-if-absent succeeds (its request goes on to answer "created") only for
\* a code whose forward mapping is absent at that moment.
C3_NoOverwrite ==
    [][\A c \in Codes :
         redis_exists(fwd, c)
         => /\ redis_exists(fwd', c) => fwd'[c].val = fwd[c].val
            /\ \A p \in Procs :
                 ~(pc[p] = "set_nx" /\ pc'[p] = "set_rev" /\ code'[p] = c)]_vars

\* C3 witness: one worker holds the code for its path, the other has collided
\* on it for another path.
C3_Witness ==
    \E p1, p2 \in Procs :
        /\ pc[p1] = "set_rev" /\ redis_exists(fwd, code[p1])
        /\ fwd[code[p1]].val = path[p1]
        /\ pc[p2] = "set_nx" /\ tries[p2] > 0 /\ path[p2] # path[p1]

\* C4: every reverse mapping that is present holds a code whose forward
\* mapping is live.
C4_RevPointsToLive ==
    \A x \in Paths :
        redis_exists(rev, x) => redis_exists(fwd, redis_get(rev, x))

\* C4, amended: every reverse mapping that is present holds a code, and the
\* entry was set by a request that had just created the forward mapping of
\* that code for that path with a successful set-if-absent; afterwards the
\* entry is only refreshed (by the reuse branch) or aged, never re-pointed.
\* (The forward mapping may expire first.)
C4_RevFollowsMint ==
    /\ [](\A x \in Paths : redis_exists(rev, x) => redis_get(rev, x) \in Codes)
    /\ [][\A x \in Paths :
            (redis_exists(rev', x) /\ rev'[x] # rev[x])
            => \/ rev'[x] = age(rev[x], AbsentRev)
               \/ \E p \in Procs :
                    /\ pc[p] = "expire_rev" /\ path[p] = x
                    /\ redis_exists(rev, x)
                    /\ rev'[x] = [rev[x] EXCEPT !.ttl = MaxTtl]
               \/ \E p \in Procs :
                    /\ pc[p] = "set_rev" /\ path[p] = x
                    /\ log[p] = <<[key |-> "fwd", code |-> code[p], path |-> x]>>
                    /\ rev'[x] = [val |-> code[p], ttl |-> MaxTtl]]_vars

\* C4 witness: the window, a reverse mapping whose code's forward mapping
\* has expired.
C4_Witness ==
    \E x \in Paths :
        redis_exists(rev, x) /\ ~redis_exists(fwd, redis_get(rev, x))

\* C5: exhaustion.  A request answers 503 'could not allocate short code,
\* try again' exactly when its eighth set-if-absent in a row has failed; a
\* failed attempt changes no key, the request has then set no key at all, and
\* there is no ninth attempt.
C5_Exhaustion ==
    /\ [](\A p \in Procs :
            /\ tries[p] <= 8
            /\ resp[p].status = 503
               => /\ tries[p] = 8 /\ log[p] = <<>> /\ pc[p] = "done"
                  /\ resp[p].error = "could not allocate short code, try again"
            /\ tries[p] = 8 => resp[p].status = 503)
    /\ [][\A p \in Procs :
            /\ tries'[p] = tries[p] + 1 => fwd' = fwd /\ rev' = rev
            /\ resp[p].status = 503 /\ pc'[p] # pc[p]
               => pc'[p] = "idle" /\ fwd' = fwd /\ rev' = rev]_vars

\* C5 witness: a request has been answered 503.
C5_Witness ==
    \E p \in Procs : pc[p] = "done" /\ resp[p].status = 503 /\ tries[p] = 8

C7_ResolveFrame ==
    [][\A p \in Procs :
         ResolveStep(p)
         => /\ rev' = rev
            /\ \A c \in ResolveCodes \ {code'[p]} : fwd'[c] = fwd[c]
            /\ fwd'[code'[p]].val = fwd[code'[p]].val]_vars

\* C7 witness: after a resolve the forward mapping has the full TTL and the
\* reverse mapping of its path has not.
C7_Witness ==
    \E p \in Procs :
        /\ pc[p] = "done" /\ resp[p].status = 302
        /\ fwd[code[p]].ttl = MaxTtl
        /\ redis_exists(rev, resp[p].path)
        /\ rev[resp[p].path].val = code[p]
        /\ rev[resp[p].path].ttl < MaxTtl

\* C8: a resolve request for a code with no live forward mapping answers
\* 404 and leaves every key as it was.
C8_NotFound ==
    [][\A p \in Procs :
         (pc[p] = "idle" /\ pc'[p] # "idle" /\ req'[p] = NoRequest
            /\ ~redis_exists(fwd, code'[p]))
         => /\ pc'[p] = "done" /\ resp'[p].status = 404
            /\ fwd' = fwd /\ rev' = rev]_vars

\* C8 witness: 404 for a code whose forward mapping has expired while a
\* reverse mapping still names it.
C8_Witness ==
    \E p \in Procs, x \in Paths :
        /\ pc[p] = "done" /\ resp[p].status = 404
        /\ code[p] \in Codes
        /\ redis_exists(rev, x) /\ rev[x].val = code[p]

\* The request is rejected as cross-origin by the spec's rule: not
\* root-relative, and no scheme, no host, or scheme or host other than the
\* requesting origin's.
CrossOrigin(q) ==
    LET raw == strip(q.url)
        u == urlparse[raw]
    IN  /\ raw # <<>>
        /\ ~startswith_slash(raw)
        /\ \/ u.scheme = <<>>
           \/ u.netloc = <<>>
           \/ u.scheme # q.origin.scheme
           \/ u.netloc # q.origin.host

\* C9: a shorten request with an empty target is answered 400 'url is
\* required', one with a cross-origin target 400 'only same-origin URLs are
\* allowed'; neither changes a key, then or later.
C9_Rejected ==
    /\ [][\A p \in Procs :
            (pc[p] = "idle" /\ req'[p] # NoRequest)
            => /\ strip(req'[p].url) = <<>>
                  => /\ pc'[p] = "done" /\ fwd' = fwd /\ rev' = rev
                     /\ resp'[p] = Response(400, NoCode, NoPath, "url is required")
               /\ CrossOrigin(req'[p])
                  => /\ pc'[p] = "done" /\ fwd' = fwd /\ rev' = rev
                     /\ resp'[p] = Response(400, NoCode, NoPath,
                                            "only same-origin URLs are allowed")]_vars
    /\ [][\A p \in Procs :
            (resp[p].status = 400 /\ pc'[p] # pc[p])
            => pc'[p] = "idle" /\ fwd' = fwd /\ rev' = rev]_vars
    /\ [](\A p \in Procs : resp[p].status = 400 => log[p] = <<>>)

\* C9 witness: a target on another scheme was rejected while keys exist.
C9_Witness ==
    \E p \in Procs :
        /\ pc[p] = "done" /\ resp[p].status = 400
        /\ resp[p].error = "only same-origin URLs are allowed"
        /\ req[p] = [url |-> Str_abs, origin |-> Origin_th]
        /\ \E c \in Codes : redis_exists(fwd, c)

\* C10: a shorten request with a root-relative target is answered 201 or 200.
C10_RelativeSucceeds ==
    \A p \in Procs :
        (pc[p] = "done" /\ req[p] # NoRequest /\ startswith_slash(strip(req[p].url)))
        => resp[p].status \in {200, 201}

\* C10, amended: a shorten request with a root-relative target is never
\* rejected as invalid, whatever its origin; it is answered 201 or 200, or
\* 503 when all eight attempts of the allocation loop collided.
C10_RelativeNeverRejected ==
    \A p \in Procs :
        (pc[p] = "done" /\ req[p] # NoRequest /\ startswith_slash(strip(req[p].url)))
        => \/ resp[p].status \in {200, 201}
           \/ resp[p].status = 503 /\ tries[p] = 8

\* C10 witness: a root-relative target from a foreign origin got 503.
C10_Witness ==
    \E p \in Procs :
        /\ pc[p] = "done" /\ resp[p].status = 503
        /\ req[p] = [url |-> Str_rel, origin |-> Origin_se]

\* str.index: the value of a base-62 digit.
digit_value(ch) == (CHOOSE i \in 1..Radix : BASE62[i] = ch) - 1

\* n * 62 + d on the limbs, least significant limb first; i limbs done.
muladd_step[n \in Seq(0..(LimbBase - 1)), d \in 0..(Radix - 1), i \in 0..NumLimbs] ==
    IF i = 0
    THEN [limbs |-> <<>>, carry |-> d]
    ELSE LET acc == muladd_step[n, d, i - 1]
             cur == n[NumLimbs + 1 - i] * Radix + acc.carry
         IN  [limbs |-> <<cur % LimbBase>> \o acc.limbs, carry |-> cur \div LimbBase]

\* The number a string of base-62 digits denotes, on NumLimbs limbs; <<>>
\* when it needs more than RandBits bits.
value62[s \in Seq(Alphabet)] ==
    IF s = <<>>
    THEN ZeroLimbs
    ELSE LET hi == value62[SubSeq(s, 1, Len(s) - 1)]
         IN  IF hi = <<>>
             THEN <<>>
             ELSE LET m == muladd_step[hi, digit_value(s[Len(s)]), NumLimbs]
                  IN  IF m.carry > 0 THEN <<>> ELSE m.limbs

\* C11: for every draw n of 48 bits and every length L >= 1, new_code(L)
\* returns exactly L characters of the 62-symbol alphabet: the base-62
\* representation of n (the digit string without leading zero that denotes
\* n), left-padded with '0' when shorter than L, cut to its first L
\* characters otherwise.
C11_NewCode ==
    draw.code # NoMint
    => LET L == draw.code_len
           b == to_base62(draw.n)
           k == Len(b)
       IN  /\ Len(draw.code) = L
           /\ \A i \in 1..L : draw.code[i] \in Alphabet
           /\ value62[b] = draw.n
           /\ k >= 1 /\ (k = 1 \/ b[1] # "0")
           /\ k < L => /\ \A i \in 1..(L - k) : draw.code[i] = "0"
                       /\ \A i \in 1..k : draw.code[L - k + i] = b[i]
           /\ k >= L => \A i \in 1..L : draw.code[i] = b[i]

\* C11 witness: the largest draw, 2^48 - 1, has nine base-62 digits; at the
\* configured length the code is its first eight.
C11_Witness ==
    /\ draw.code # NoMint
    /\ draw.code_len = SHORT_CODE_LEN
    /\ draw.n = [i \in 1..NumLimbs |-> LimbBase - 1]
    /\ Len(to_base62(draw.n)) = SHORT_CODE_LEN + 1
    /\ draw.code = SubSeq(to_base62(draw.n), 1, SHORT_CODE_LEN)

\* The request of handler p is a shorten request with a valid same-origin
\* target.
ValidShorten(p) ==
    /\ req[p] # NoRequest
    /\ strip(req[p].url) # <<>>
    /\ same_origin(req[p].origin, strip(req[p].url))

\* C12: when the store cannot be reached (the server does not answer, or
\* the handler has no client), a resolve request never answers 404 and a
\* shorten request with a valid same-origin target never answers 400, 201,
\* 200 or 503: the command raises, the request ends with 500 at that
\* command, and no key is changed by it.
C12_Outage ==
    [][\A p \in Procs :
         /\ (pc[p] = "idle" /\ pc'[p] # "idle" /\ req'[p] = NoRequest /\ ~up)
            => /\ pc'[p] = "done" /\ resp'[p].status = 500
               /\ fwd' = fwd /\ rev' = rev
         /\ (AtRedis(p) /\ ~(r[p] /\ up) /\ pc'[p] # pc[p])
            => /\ pc'[p] = "done" /\ resp'[p].status = 500
               /\ resp'[p].status \notin {200, 201, 302, 400, 404, 503}
               /\ fwd' = fwd /\ rev' = rev
         /\ (pc[p] = "idle" /\ pc'[p] = "done" /\ req'[p] # NoRequest /\ ~up)
            => ~ValidShorten(p)']_vars

\* C12 witness: the server stopped answering after the forward key was set;
\* the valid shorten request ended with 500.
C12_Witness ==
    \E p \in Procs :
        /\ pc[p] = "done" /\ resp[p].status = 500
        /\ ValidShorten(p) /\ ~up
        /\ log[p] # <<>>

\* C13: lifecycle.  Under any interleaving of shorten and resolve requests,
\* the value of a forward mapping that is live stays what it is for as long
\* as the mapping stays live; a mapping disappears only when the clock ticks
\* on its last tick of TTL; and a step of a request removes no forward or
\* reverse mapping and lowers no TTL.
C13_Lifecycle ==
    [][/\ \A c \in Codes :
            redis_exists(fwd, c)
            => /\ redis_exists(fwd', c) => fwd'[c].val = fwd[c].val
               /\ ~redis_exists(fwd', c) => pc' = pc /\ fwd[c].ttl = 1
       /\ pc' # pc
          => /\ \A c \in Codes :
                  redis_exists(fwd, c)
                  => redis_exists(fwd', c) /\ fwd'[c].ttl >= fwd[c].ttl
             /\ \A x \in Paths :
                  redis_exists(rev, x)
                  => redis_exists(rev', x) /\ rev'[x].ttl >= rev[x].ttl]_vars

\* C13 witness: a forward mapping created by one worker has since aged, been
\* resolved by the other worker and has the full TTL again, with its value.
C13_Witness ==
    \E p1, p2 \in Procs, c \in Codes :
        /\ p1 # p2
        /\ pc[p1] = "done" /\ resp[p1].status = 201 /\ resp[p1].code = c
        /\ pc[p2] = "done" /\ resp[p2].status = 302 /\ code[p2] = c
        /\ fwd[c] = [val |-> resp[p1].path, ttl |-> MaxTtl]
        /\ rev[resp[p1].path] = [val |-> c, ttl |-> MaxTtl - 1]

\* C14: whenever a shorten request returns 200 (reused) with code c, at
\* that moment the forward mapping of c is live and both it and the reverse
\* mapping of the path have the full TTL.
C14_ReuseRefreshed ==
    [][\A p \in Procs :
         (pc[p] = "expire_rev" /\ pc'[p] = "done" /\ resp'[p].status = 200)
         => /\ redis_exists(fwd', resp'[p].code)
            /\ fwd'[resp'[p].code].ttl = MaxTtl
            /\ redis_exists(rev', path[p])
            /\ rev'[path[p]].ttl = MaxTtl]_vars

\* C15: no two distinct live forward mappings hold the same normalized
\* path.
C15_OneCodePerPath ==
    \A c1, c2 \in Codes :
        (c1 # c2 /\ redis_exists(fwd, c1) /\ redis_exists(fwd, c2))
        => fwd[c1].val # fwd[c2].val

\* C15, amended: a shorten request goes to the allocation loop only when
\* its lookup of the reverse mapping found nothing, or found a code whose
\* forward mapping was not live when checked; a request that found the
\* reverse mapping and a live forward mapping creates no forward mapping.
C15_MintOnlyOnMiss ==
    [][\A p \in Procs :
         /\ (pc[p] = "rev_get" /\ pc'[p] = "set_nx")
            => ~redis_exists(rev, path[p])
         /\ (pc[p] = "rev_get" /\ pc'[p] = "exists")
            => /\ redis_exists(rev, path[p])
               /\ existing_code'[p] = rev[path[p]].val
         /\ (pc[p] = "exists" /\ pc'[p] = "set_nx")
            => ~redis_exists(fwd, existing_code[p])
         /\ (pc[p] = "exists" /\ pc'[p] = "expire_fwd")
            => redis_exists(fwd, existing_code[p])
         /\ (pc[p] # "set_nx" /\ pc'[p] = "set_nx")
            => pc[p] \in {"rev_get", "exists"}
         /\ (pc[p] \in {"rev_get", "exists", "expire_fwd", "expire_rev"}
               /\ pc'[p] # pc[p])
            => \A c \in Codes : redis_exists(fwd', c) => redis_exists(fwd, c)]_vars

\* C15 witness: both codes are live for the same path, and a request for
\* that path has just reused the one the reverse mapping names.
C15_Witness ==
    \E p \in Procs, c1, c2 \in Codes :
        /\ c1 # c2
        /\ redis_exists(fwd, c1) /\ redis_exists(fwd, c2)
        /\ fwd[c1].val = fwd[c2].val
        /\ pc[p] = "done" /\ resp[p].status = 200 /\ resp[p].code = c2
        /\ resp[p].path = fwd[c2].val /\ log[p] = <<>>

\* C16: a shorten request that returns 201 (created) has stopped at its
\* first successful set-if-absent.  That step wrote the one forward mapping
\* (returned code -> normalized path, full TTL), for a code that was free;
\* the next step wrote the reverse mapping (path -> the same code, full TTL)
\* and returned; the failed attempts before wrote nothing.
C16_Created ==
    [][\A p \in Procs :
         /\ (pc[p] = "set_nx" /\ pc'[p] = "set_rev")
            => /\ ~redis_exists(fwd, code'[p])
               /\ log[p] = <<>>
               /\ fwd' = [fwd EXCEPT ![code'[p]] = [val |-> path[p], ttl |-> MaxTtl]]
               /\ rev' = rev
         /\ (pc[p] = "set_nx" /\ pc'[p] # "set_rev" /\ tries'[p] # tries[p])
            => fwd' = fwd /\ rev' = rev
         /\ (pc[p] = "set_rev" /\ pc'[p] # "set_rev")
            => /\ pc'[p] = "done"
               /\ resp'[p] = Response(201, code[p], Normalized(req[p]), "")
               /\ path[p] = Normalized(req[p])
               /\ rev' = [rev EXCEPT ![path[p]] = [val |-> code[p], ttl |-> MaxTtl]]
               /\ fwd' = fwd
               /\ log'[p] = <<[key |-> "fwd", code |-> code[p], path |-> path[p]],
                              [key |-> "rev", code |-> code[p], path |-> path[p]]>>
         /\ (Returns(p) /\ resp'[p].status = 201) => pc[p] = "set_rev"]_vars

\* C16 witness: created, with the other code held live by another path (a
\* draw of it would have failed), and the two writes in place.
C16_Witness ==
    \E p \in Procs, c \in Codes :
        /\ pc[p] = "done" /\ resp[p].status = 201 /\ Len(log[p]) = 2
        /\ c # resp[p].code
        /\ redis_exists(fwd, c) /\ fwd[c].val # resp[p].path
        /\ fwd[resp[p].code] = [val |-> resp[p].path, ttl |-> MaxTtl]
        /\ rev[resp[p].path] = [val |-> resp[p].code, ttl |-> MaxTtl]

\* C17: if the reverse mapping of path x holds code c and the forward
\* mapping of c is live, the forward mapping of c holds x.
C17_RevAgrees ==
    \A x \in Paths :
        (redis_exists(rev, x) /\ redis_exists(fwd, rev[x].val))
        => fwd[rev[x].val].val = x

\* No worker takes or serves a request any more.
RequestsStopped == \A p \in Worker : pc[p] = "stopped"

\* The store holds no forward and no reverse entry.
StoreEmpty ==
    /\ \A c \in ResolveCodes : ~redis_exists(fwd, c)
    /\ \A x \in Paths : ~redis_exists(rev, x)

\* C18: every forward and every reverse entry in the store has a remaining
\* TTL, between 1 and the configured lifetime (no key is without expiry);
\* and once requests have stopped, every entry that is left, also a forward
\* mapping whose request was abandoned before the reverse mapping was
\* written, expires.
C18_Expires ==
    /\ [](/\ \A c \in ResolveCodes :
               redis_exists(fwd, c) => fwd[c].ttl \in 1..MaxTtl
          /\ \A x \in Paths :
               redis_exists(rev, x) => rev[x].ttl \in 1..MaxTtl)
    /\ (RequestsStopped ~> StoreEmpty)

\* C18 witness: requests have stopped; a forward mapping is live that no
\* reverse mapping names (its request was abandoned after SET NX).
C18_Witness ==
    /\ RequestsStopped
    /\ \E c \in Codes :
         /\ redis_exists(fwd, c)
         /\ \A x \in Paths : ~redis_exists(rev, x)

====
